---- MODULE Spec2Model ----
(***************************************************************************)
(* Crawl orchestration and job-lifecycle reconciliation of job_insight_104 *)
(* (apps/crawler/searcher.py, storage.py, processor.py, orchestrator.py,   *)
(* src/database/mongodb_manager.py).                                       *)
(*                                                                         *)
(* Three specifications share the variables:                               *)
(*   Spec      - search_all_keywords + fetch_all_pages of one storage      *)
(*               backend over several runs and days (small site);          *)
(*   SpecGate  - the same actions on a site whose page count exceeds       *)
(*               MAX_CONCURRENCY, one run;                                 *)
(*   SpecStore - the listing store: the synchronous tail of                *)
(*               CrawlerOrchestrator.crawl and the ListingStorage calls.   *)
(***************************************************************************)
EXTENDS Bags, FiniteSets, Integers, Sequences, TLC

\* ---------------------------------------------------------------- constants
MAX_RETRIES == 3
MAX_CONCURRENCY == 10
JOB_STATUS_ACTIVE == "active"
JOB_STATUS_INACTIVE == "inactive"

\* ------------------------------------------------------------------- bounds
MaxDay == 2
MaxRuns == 2
MaxPages == 2
MaxFaults == 1
GatePages == 11
GateFaults == 1
MaxBatch == 2
MaxCalls == 5
MaxRaw == 3
MaxAddr == 4

\* keywords a run may be asked to search, and the region taxonomy
\* (area_code_map.items() iterates in a fixed order)
Keywords == {"python", "java"}
AreaList == <<"6001001000">>

\* listing IDs (jobNo) the site can return
JobIds == {"A1", "A2"}

\* the keyword lists a run is started with (a list may repeat a keyword)
KeywordLists ==
  {<<"python">>, <<"java">>, <<"python", "java">>, <<"python", "python">>}

\* ------------------------------------------------------------ URLs, records
\* build_url: the URL is determined by (keyword, page, area); every other
\* query parameter is a fixed string.  "" is the empty tuple.
build_url(keyword, area, page) == <<keyword, page, area>>
EmptyUrl == <<>>

\* the "result" field of a SearchRunRecord:
\*   "urls"  - list of page URLs (first-page probe, status ok)
\*   "data"  - a payload {data: {...}} returned by search_jobs
\*   "error" - a dict {"error": ...} returned by search_jobs
\*   "empty" - the empty string "" of an error record
UrlsResult(urls) == [kind |-> "urls", urls |-> urls]
DataResult == [kind |-> "data", urls |-> <<>>]
\* a payload {data: {...}} that has no 'totalPage'
NoTotalResult == [kind |-> "nototal", urls |-> <<>>]
ErrorDictResult == [kind |-> "error", urls |-> <<>>]
EmptyResult == [kind |-> "empty", urls |-> <<>>]

\* None, as returned by find_one / dict.get
NoRecord ==
  [today |-> 0, keyword |-> "", first_url |-> EmptyUrl, crawl_url |-> EmptyUrl,
   status |-> "none", result |-> EmptyResult]

\* a filter key that the caller did not pass
NoKey == "<absent>"
NoUrlKey == <<"<absent>">>

\* the listing store's view of the last operation: its name, the
\* {id -> status} map get_existing_jobs would have returned before it, and
\* the jobNo list it was called with
NoOp(name) ==
  [op |-> name, existing |-> [id \in JobIds |-> "absent"], jobNos |-> <<>>,
   keywords |-> {}, raised |-> FALSE, closed |-> FALSE, written |-> {},
   ret |-> 0]

VARIABLES
  world,                \* the site and workload the behaviour is drawn from
  backend,              \* "mongo" (MongoDBJobStorage) or "file" (FileJobStorage)
  today,                \* datetime.now().strftime("%Y-%m-%d"), as a day number
  daily,                \* MongoDB collection 'daily': a bag of documents
  search_results_cache, \* FileJobStorage._search_results_cache: key -> record
  pc,                   \* "idle", "search" (search_all_keywords), "fetch"
  keywords,             \* the keyword list of the running crawl
  kwIdx,                \* index of the keyword search_all_keywords is at
  mapping,              \* keyword_to_urls_mapping, in insertion order
  tasks,                \* the coroutines of the current asyncio.gather
  nextStart,            \* next task of the gather to run its first step
  permits,              \* asyncio.Semaphore._value
  waiters,              \* asyncio.Semaphore._waiters (FIFO)
  search_results,       \* successful_results returned by fetch_all_pages
  faultsLeft,           \* requests of this run that may still misbehave
  runs,                 \* crawl runs started so far
  fetched,              \* bag of URLs: requests answered with data today
  jobs,                 \* MongoDB collection 'jobs': a bag of documents
  jobs_cache,           \* FileJobStorage._jobs_cache: jobNo -> job dict
  lastOp,               \* the last storage-level operation and its arguments
  http,                 \* HttpAdapter: its fields and the async_request under way
  proc                  \* JobDataProcessor / Crawler: the batch being reconciled

fetchVars ==
  <<pc, keywords, kwIdx, mapping, tasks, nextStart, permits, waiters,
    search_results, faultsLeft, runs, fetched>>
cacheVars == <<daily, search_results_cache>>
storeVars == <<jobs, jobs_cache>>
auxVars == <<http, proc>>
vars ==
  <<world, backend, today, cacheVars, fetchVars, storeVars, lastOp, auxVars>>

\* ------------------------------------------------------- search-result cache
SameKey(d, result) ==
  /\ d.today = result.today
  /\ d.keyword = result.keyword
  /\ d.first_url = result.first_url
  /\ d.crawl_url = result.crawl_url

\* the save as a plain insert_one
MongoSaveSearchResultInsert(coll, result) == coll (+) SetToBag({result})

\* MongoDBJobStorage.save_search_result: update_one(key, {$set: result},
\* upsert=True) on the collection 'daily'
MongoSaveSearchResult(coll, result) ==
  LET M == {d \in BagToSet(coll) : SameKey(d, result)}
  IN IF M = {}
       THEN coll (+) SetToBag({result})
       ELSE LET d == CHOOSE x \in M : TRUE
            IN (coll (-) SetToBag({d})) (+) SetToBag({result})

\* MongoDBJobStorage.get_search_result: find_one(filters); a filter matches
\* the documents that agree on every field the filter names
MongoMatches(d, filters) ==
  /\ d.today = filters.today
  /\ filters.keyword # NoKey => d.keyword = filters.keyword
  /\ filters.first_url # NoUrlKey => d.first_url = filters.first_url
  /\ filters.crawl_url # NoUrlKey => d.crawl_url = filters.crawl_url

MongoGetSearchResult(coll, filters) ==
  LET M == {d \in BagToSet(coll) : MongoMatches(d, filters)}
  IN IF M = {} THEN NoRecord ELSE CHOOSE d \in M : TRUE

\* FileJobStorage.save_search_result: _search_results_cache[key] = result
FileKey(result) ==
  <<result.today, result.keyword, result.first_url, result.crawl_url>>

FileSaveSearchResult(cache, result) ==
  [k \in DOMAIN cache \cup {FileKey(result)} |->
     IF k = FileKey(result) THEN result ELSE cache[k]]

\* FileJobStorage.get_search_result: the key is built with "" for every
\* field the filter does not name
FileFilterKey(filters) ==
  <<filters.today,
    IF filters.keyword = NoKey THEN "" ELSE filters.keyword,
    IF filters.first_url = NoUrlKey THEN EmptyUrl ELSE filters.first_url,
    IF filters.crawl_url = NoUrlKey THEN EmptyUrl ELSE filters.crawl_url>>

FileGetSearchResult(cache, filters) ==
  IF FileFilterKey(filters) \in DOMAIN cache
    THEN cache[FileFilterKey(filters)]
    ELSE NoRecord

\* JobStorage.get_search_result / save_search_result of the configured backend
get_search_result(filters) ==
  IF backend = "mongo"
    THEN MongoGetSearchResult(daily, filters)
    ELSE FileGetSearchResult(search_results_cache, filters)

\* a save that keeps successes only
save_search_result_ok_only(result) ==
  IF result.status # "ok"
    THEN UNCHANGED <<daily, search_results_cache>>
    ELSE IF backend = "mongo"
      THEN /\ daily' = MongoSaveSearchResult(daily, result)
           /\ UNCHANGED search_results_cache
      ELSE /\ search_results_cache' =
                FileSaveSearchResult(search_results_cache, result)
           /\ UNCHANGED daily

save_search_result(result) ==
  IF backend = "mongo"
    THEN /\ daily' = MongoSaveSearchResult(daily, result)
         /\ UNCHANGED search_results_cache
    ELSE /\ search_results_cache' =
              FileSaveSearchResult(search_results_cache, result)
         /\ UNCHANGED daily

\* every SearchRunRecord the backend holds
StoredRecords ==
  IF backend = "mongo"
    THEN BagToSet(daily)
    ELSE {search_results_cache[k] : k \in DOMAIN search_results_cache}

\* a record with the composite key of result is stored
HasKey(result) == \E d \in StoredRecords : SameKey(d, result)

\* ------------------------------------------------------------------- tasks
NewTask(role, keyword, url) ==
  [role |-> role, keyword |-> keyword, url |-> url, pc |-> "new",
   attempts |-> 0, hit |-> FALSE, over |-> FALSE, resp |-> "none",
   ret |-> NoRecord]

\* search_keyword: one get_first_page coroutine per region
ProbeTasks(keyword) ==
  [i \in 1..Len(AreaList) |->
     NewTask("probe", keyword, build_url(keyword, AreaList[i], 1))]

RECURSIVE Flatten(_)
Flatten(ss) == IF ss = <<>> THEN <<>> ELSE Head(ss) \o Flatten(Tail(ss))

\* fetch_all_pages: one search_with_semaphore coroutine per (keyword, url)
PageTasks(m) ==
  Flatten([i \in 1..Len(m) |->
             [j \in 1..Len(m[i].urls) |->
                NewTask("page", m[i].keyword, m[i].urls[j])]])

\* the mapping as a list of pairs that takes a keyword twice
DictSetAppend(m, keyword, urls) ==
  Append(m, [keyword |-> keyword, urls |-> urls])

\* keyword_to_urls_mapping[keyword] = page_urls (a dict keeps the position
\* of a key that is assigned again)
DictSet(m, keyword, urls) ==
  IF \E i \in 1..Len(m) : m[i].keyword = keyword
    THEN [i \in 1..Len(m) |->
            IF m[i].keyword = keyword
              THEN [keyword |-> keyword, urls |-> urls] ELSE m[i]]
    ELSE Append(m, [keyword |-> keyword, urls |-> urls])

\* the filter of the cache check at the head of a task
CacheFilter(t) ==
  IF t.role = "probe"
    THEN [today |-> today, keyword |-> NoKey, first_url |-> t.url,
          crawl_url |-> NoUrlKey]
    ELSE [today |-> today, keyword |-> NoKey, first_url |-> EmptyUrl,
          crawl_url |-> t.url]

\* a status=ok record of today exists for the task's role and URL
SavedOk(t) ==
  \E d \in StoredRecords :
    /\ d.today = today
    /\ d.status = "ok"
    /\ d.crawl_url = t.url
    /\ d.first_url = IF t.role = "probe" THEN t.url ELSE EmptyUrl

\* a gather that is complete only when every coroutine succeeded
AllDoneOk ==
  \A i \in 1..Len(tasks) : tasks[i].pc = "done" /\ tasks[i].ret.status = "ok"

AllDone == \A i \in 1..Len(tasks) : tasks[i].pc = "done"
AllStarted == nextStart > Len(tasks)
InFlight == {i \in 1..Len(tasks) : tasks[i].pc = "inflight"}

\* search_jobs: what it returns for the transport's answer
\*   "errmarker" - the transport's {"error": ...} after MAX_RETRIES attempts
\*   "nodata"    - a JSON object without 'data'
\*   "nototal"   - {data: {...}} without 'totalPage' (it matters to a probe
\*                 only: a page fetch never reads totalPage)
\*   "scalar"    - a JSON null/number: '"error" in response_data' raises
\*   "data"      - {data: {totalPage, totalCount, list}}
search_jobs(answer) ==
  CASE answer = "data" -> [raised |-> FALSE, result |-> DataResult]
    [] answer = "nototal" -> [raised |-> FALSE, result |-> NoTotalResult]
    [] answer = "scalar" -> [raised |-> TRUE, result |-> EmptyResult]
    [] OTHER -> [raised |-> FALSE, result |-> ErrorDictResult]

\* the record of a probe that reports every answer as a success
FirstPageRecordAlwaysOk(t, answer, total_pages) ==
  [today |-> today, keyword |-> t.keyword, first_url |-> t.url,
   crawl_url |-> t.url, status |-> "ok",
   result |-> UrlsResult([p \in 1..total_pages |->
                            build_url(t.url[1], t.url[3], p)])]

\* the record get_first_page builds from the answer of search_jobs
FirstPageRecord(t, answer, total_pages) ==
  LET r == search_jobs(answer)
      ok == ~r.raised /\ r.result.kind = "data"
  IN [today |-> today, keyword |-> t.keyword, first_url |-> t.url,
      crawl_url |-> t.url,
      status |-> IF ok THEN "ok" ELSE "error",
      result |-> IF ok
                   THEN UrlsResult([p \in 1..total_pages |->
                                      build_url(t.url[1], t.url[3], p)])
                   ELSE EmptyResult]

\* the record search_with_semaphore builds from the answer of search_jobs
PageRecord(t, answer) ==
  LET r == search_jobs(answer)
  IN [today |-> today, keyword |-> t.keyword, first_url |-> EmptyUrl,
      crawl_url |-> t.url,
      status |-> IF r.raised THEN "error" ELSE "ok",
      result |-> IF r.raised THEN EmptyResult ELSE r.result]

\* JobDataProcessor before a batch is handed to it
ProcIdle == [pc |-> "idle"]

\* ---------------------------------------------------------------- transport
\* the User-Agent pool handed to the adapter (constants.USER_AGENTS)
UserAgents == {"ua1", "ua2"}

\* the values of a 429 response's Retry-After header: not sent, a number of
\* seconds, an HTTP-date
RetryAfterHeaders == {"absent", "7", "date"}

\* int(response.headers.get("Retry-After", 60)); -1 stands for the
\* ValueError int() raises on a header that is not a number
RetryAfterSeconds(h) ==
  CASE h = "absent" -> 60
    [] h = "7" -> 7
    [] OTHER -> -1

\* entries of the trace of an async_request call
SendEvent(ua) ==
  [ev |-> "send", ua |-> ua, wait |-> 0, code |-> 0, retry_after |-> ""]
SleepEvent(kind, wait) ==
  [ev |-> kind, ua |-> "", wait |-> wait, code |-> 0, retry_after |-> ""]
PickEvent(ua) ==
  [ev |-> "update_user_agent", ua |-> ua, wait |-> 0, code |-> 0,
   retry_after |-> ""]
\* code 0 is a network error (httpx.RequestError)
ResponseEvent(r) ==
  [ev |-> "response", ua |-> "", wait |-> 0, code |-> r.code,
   retry_after |-> r.retry_after]

\* HttpAdapter after __init__ (which picks a first User-Agent)
HttpNew(ua) ==
  [pc |-> "idle", ua |-> ua, request_count |-> 0, merged_ua |-> "",
   retries |-> 0, attempts |-> 0, log |-> <<>>, ret |-> "none"]

\* the loop test with <= for <
LoopGuardOneMore(retries) == retries <= MAX_RETRIES

\* 'while retries < self.max_retries'
LoopGuard(retries) == retries < MAX_RETRIES

\* the test of the except branches: 'if retries < self.max_retries - 1'
MayRetry(retries) == retries < MAX_RETRIES - 1

\* async_request up to its loop: request_count, the rotation on every fifth
\* request, merged_headers = self.headers.copy(), retries = 0
AsyncRequestStart ==
  /\ http.pc \in {"idle", "returned"}
  /\ http.request_count < MaxCalls
  /\ \E new_ua \in UserAgents :
       LET count == http.request_count + 1
           ua == IF count % 5 = 0 THEN new_ua ELSE http.ua
       IN http' = [http EXCEPT !.pc = "loop", !.request_count = count,
                               !.ua = ua, !.merged_ua = ua, !.retries = 0,
                               !.attempts = 0, !.log = <<>>, !.ret = "none"]
  /\ UNCHANGED <<world, backend, today, cacheVars, fetchVars, storeVars,
                 lastOp, proc>>

\* the state of the call after a round that ended with retries = n: the loop
\* goes round again, or it is left and the error marker is returned
AfterRound(h, n) ==
  IF LoopGuard(n)
    THEN [h EXCEPT !.retries = n]
    ELSE [h EXCEPT !.retries = n, !.pc = "returned", !.ret = "error"]

\* the except branches: retry, or return the error marker
AfterException(h) ==
  IF MayRetry(h.retries)
    THEN [h EXCEPT !.retries = h.retries + 1]
    ELSE [h EXCEPT !.pc = "returned", !.ret = "error"]

\* the head of a round: the jittered delay random.uniform(min_retry_delay *
\* retries, max_retry_delay * retries) (kept as its factor), then the request
\* is sent with merged_headers
RoundSent(h) ==
  LET slept == IF h.retries > 0
                 THEN Append(h.log, SleepEvent("sleep_jitter", h.retries))
                 ELSE h.log
  IN [h EXCEPT !.attempts = h.attempts + 1,
               !.log = Append(slept, SendEvent(h.merged_ua))]

\* one round of the loop of async_request that meets the response r; new_ua is
\* what random.choice(self.user_agents) returns if update_user_agent is called
Round(r, new_ua) ==
  /\ http.pc = "loop"
  /\ LET sent == RoundSent(http)
         h == [sent EXCEPT !.log = Append(sent.log, ResponseEvent(r))]
     IN http' =
          CASE r.code = 403 ->
                 AfterRound([h EXCEPT !.ua = new_ua,
                                      !.log = Append(h.log, PickEvent(new_ua))],
                            h.retries + 1)
            [] r.code = 429 /\ RetryAfterSeconds(r.retry_after) >= 0 ->
                 AfterRound(
                   [h EXCEPT !.log =
                      Append(h.log,
                             SleepEvent("sleep_retry_after",
                                        RetryAfterSeconds(r.retry_after)))],
                   h.retries + 1)
            [] r.code = 200 -> [h EXCEPT !.pc = "returned", !.ret = "payload"]
            [] OTHER -> AfterException(h)
  /\ UNCHANGED <<world, backend, today, cacheVars, fetchVars, storeVars,
                 lastOp, proc>>

\* HTTP 403
RoundForbidden ==
  \E new_ua \in UserAgents :
    Round([code |-> 403, retry_after |-> "absent"], new_ua)

\* HTTP 429
RoundTooManyRequests ==
  \E h \in RetryAfterHeaders :
    Round([code |-> 429, retry_after |-> h], http.ua)

\* raise_for_status raises HTTPStatusError, or the request raises RequestError
RoundError ==
  \E c \in {0, 500} : Round([code |-> c, retry_after |-> "absent"], http.ua)

\* a 2xx response: _handle_response
RoundOk == Round([code |-> 200, retry_after |-> "absent"], http.ua)

\* ------------------------------------------------------------------ worlds
SmallWorld ==
  [kwLists |-> KeywordLists, pages |-> 1..MaxPages, faults |-> MaxFaults,
   maxRuns |-> MaxRuns, backends |-> {"mongo", "file"}]
GateWorld ==
  [kwLists |-> {<<"python">>}, pages |-> {GatePages}, faults |-> GateFaults,
   maxRuns |-> 1, backends |-> {"mongo"}]
\* the small site, one run
LiveWorld ==
  [kwLists |-> KeywordLists, pages |-> 1..MaxPages, faults |-> MaxFaults,
   maxRuns |-> 1, backends |-> {"mongo", "file"}]

InitWorld(w) ==
  /\ world = w
  /\ backend \in w.backends
  /\ today = 1
  /\ daily = EmptyBag
  /\ search_results_cache = <<>>
  /\ pc = "idle"
  /\ keywords = <<>>
  /\ kwIdx = 0
  /\ mapping = <<>>
  /\ tasks = <<>>
  /\ nextStart = 1
  /\ permits = MAX_CONCURRENCY
  /\ waiters = <<>>
  /\ search_results = {}
  /\ faultsLeft = 0
  /\ runs = 0
  /\ fetched = EmptyBag
  /\ jobs = EmptyBag
  /\ jobs_cache = <<>>
  /\ lastOp = NoOp("init")

Init == InitWorld(SmallWorld) /\ http = HttpNew("ua1") /\ proc = ProcIdle
InitGate == InitWorld(GateWorld) /\ http = HttpNew("ua1") /\ proc = ProcIdle
InitLive == InitWorld(LiveWorld) /\ http = HttpNew("ua1") /\ proc = ProcIdle
InitHttp ==
  /\ InitWorld(GateWorld)
  /\ http \in {HttpNew(ua) : ua \in UserAgents}
  /\ proc = ProcIdle

\* ----------------------------------------------------------------- actions
\* CrawlerOrchestrator.run(keywords): a new JobSearcher (self.today, a fresh
\* semaphore) and the first search_keyword of search_all_keywords
RunStart(kws) ==
  /\ pc = "idle"
  /\ runs < world.maxRuns
  /\ pc' = "search"
  /\ keywords' = kws
  /\ kwIdx' = 1
  /\ mapping' = <<>>
  /\ tasks' = ProbeTasks(kws[1])
  /\ nextStart' = 1
  /\ permits' = MAX_CONCURRENCY
  /\ waiters' = <<>>
  /\ search_results' = {}
  /\ faultsLeft' = world.faults
  /\ runs' = runs + 1
  /\ UNCHANGED <<storeVars, lastOp, auxVars, world, backend, today, cacheVars, fetched>>

\* the gate with its test off by one
SemEnterOffByOne(ts, i) ==
  IF permits >= 0 /\ waiters = <<>>
    THEN /\ permits' = permits - 1
         /\ waiters' = waiters
         /\ tasks' = [ts EXCEPT ![i].pc = "inflight", ![i].attempts = 1]
    ELSE /\ permits' = permits
         /\ waiters' = Append(waiters, i)
         /\ tasks' = [ts EXCEPT ![i].pc = "waiting"]

\* Semaphore.acquire at 'async with self.semaphore': take a permit, or queue
SemEnter(ts, i) ==
  IF permits > 0 /\ waiters = <<>>
    THEN /\ permits' = permits - 1
         /\ waiters' = waiters
         /\ tasks' = [ts EXCEPT ![i].pc = "inflight", ![i].attempts = 1]
    ELSE /\ permits' = permits
         /\ waiters' = Append(waiters, i)
         /\ tasks' = [ts EXCEPT ![i].pc = "waiting"]

\* a cache check that takes any record of today for a hit
CacheHitAnyStatus(cached_result) == cached_result.status # "none"

\* 'if cached_result and cached_result.get("status") == "ok"'
CacheHit(cached_result) == cached_result.status = "ok"

\* the first step of a gathered coroutine (get_first_page /
\* search_with_semaphore up to its first suspension): the cache check, then
\* the semaphore.  The event loop runs the first step of every coroutine of
\* a gather, in list order, before it delivers any network answer.
StartTask ==
  /\ pc \in {"search", "fetch"}
  /\ nextStart <= Len(tasks)
  /\ LET i == nextStart
         t == tasks[i]
         cached_result == get_search_result(CacheFilter(t))
         ts == [tasks EXCEPT ![i].hit = SavedOk(t)]
     IN IF CacheHit(cached_result)
          THEN /\ tasks' = [ts EXCEPT ![i].pc = "done",
                                      ![i].ret = cached_result]
               /\ UNCHANGED <<permits, waiters>>
          ELSE SemEnter(ts, i)
  /\ nextStart' = nextStart + 1
  /\ UNCHANGED <<storeVars, lastOp, auxVars, world, backend, today, cacheVars, pc, keywords, kwIdx,
                 mapping, search_results, faultsLeft, runs, fetched>>

\* a queued coroutine is woken by Semaphore.release and takes the permit
AcquirePermit ==
  /\ waiters # <<>>
  /\ permits > 0
  /\ permits' = permits - 1
  /\ waiters' = Tail(waiters)
  /\ tasks' = [tasks EXCEPT ![Head(waiters)].pc = "inflight",
                            ![Head(waiters)].attempts = 1]
  /\ UNCHANGED <<storeVars, lastOp, auxVars, world, backend, today, cacheVars, pc, keywords, kwIdx,
                 mapping, nextStart, search_results, faultsLeft, runs,
                 fetched>>

\* the request of a task may misbehave if one of its attempts already did,
\* or if the run's fault budget is not used up
MayFault(t) == t.attempts > 1 \/ faultsLeft > 0
FaultCharged(t) == IF t.attempts = 1 THEN faultsLeft - 1 ELSE faultsLeft

\* HttpAdapter.async_request: an attempt fails (HTTP 403, 429, another error
\* status, a network error) and the loop goes round again; the permit is held
AttemptFails(i) ==
  /\ i \in InFlight
  /\ AllStarted
  /\ tasks[i].attempts < MAX_RETRIES
  /\ MayFault(tasks[i])
  /\ faultsLeft' = FaultCharged(tasks[i])
  /\ tasks' = [tasks EXCEPT ![i].attempts = @ + 1]
  /\ UNCHANGED <<storeVars, lastOp, auxVars, world, backend, today, cacheVars, pc, keywords, kwIdx,
                 mapping, nextStart, permits, waiters, search_results, runs,
                 fetched>>

\* the answers the transport can hand to search_jobs on the task's attempt
Answers(t) ==
  {"data"}
    \cup (IF MayFault(t) THEN {"nodata", "scalar"} ELSE {})
    \cup (IF MayFault(t) /\ t.role = "probe" THEN {"nototal"} ELSE {})
    \cup (IF t.attempts = MAX_RETRIES THEN {"errmarker"} ELSE {})

\* the exit of the gate with the permit kept
SemReleaseLeak(p) == p

\* Semaphore.release at the exit of 'async with self.semaphore'
SemRelease(p) == p + 1

\* the transport returns: the rest of get_first_page / search_with_semaphore
\* runs without suspension (build the record, save_search_result, return)
\* and the permit is released
Respond(i, answer, total_pages) ==
  /\ i \in InFlight
  /\ AllStarted
  /\ answer \in Answers(tasks[i])
  /\ LET t == tasks[i]
         rec == IF t.role = "probe"
                  THEN FirstPageRecord(t, answer, total_pages)
                  ELSE PageRecord(t, answer)
     IN /\ save_search_result(rec)
        /\ tasks' = [tasks EXCEPT ![i].pc = "done", ![i].resp = answer,
                                  ![i].over = HasKey(rec), ![i].ret = rec]
        /\ faultsLeft' = IF answer \in {"nodata", "scalar", "nototal"}
                           THEN FaultCharged(t) ELSE faultsLeft
        /\ fetched' = IF answer = "data"
                        THEN fetched (+) SetToBag({t.url}) ELSE fetched
  /\ permits' = SemRelease(permits)
  /\ UNCHANGED <<storeVars, lastOp, auxVars, world, backend, today, pc, keywords, kwIdx, mapping,
                 nextStart, waiters, search_results, runs>>

RespondAny ==
  \E i \in InFlight : \E answer \in {"data", "nodata", "nototal", "scalar", "errmarker"} :
    \E total_pages \in (IF tasks[i].role = "probe" /\ answer = "data"
                          THEN world.pages ELSE {1}) :
      Respond(i, answer, total_pages)

\* search_keyword after its gather: the page URLs of the successful probes
AllPageUrls(ts) ==
  Flatten([i \in 1..Len(ts) |->
             IF ts[i].ret.status = "ok" THEN ts[i].ret.result.urls
                                        ELSE <<>>])

\* the gather of search_keyword is complete: search_all_keywords stores the
\* URL list and goes to the next keyword, or fetch_all_pages starts
SearchKeywordReturns ==
  /\ pc = "search"
  /\ AllStarted /\ AllDone
  /\ LET m == DictSet(mapping, keywords[kwIdx], AllPageUrls(tasks))
     IN /\ mapping' = m
        /\ IF kwIdx < Len(keywords)
             THEN /\ kwIdx' = kwIdx + 1
                  /\ tasks' = ProbeTasks(keywords[kwIdx + 1])
                  /\ pc' = pc
             ELSE /\ kwIdx' = kwIdx
                  /\ tasks' = PageTasks(m)
                  /\ pc' = "fetch"
  /\ nextStart' = 1
  /\ UNCHANGED <<storeVars, lastOp, auxVars, world, backend, today, cacheVars, keywords, permits,
                 waiters, search_results, faultsLeft, runs, fetched>>

\* the gather of fetch_all_pages is complete: it returns the status=ok
\* results and the searcher of this run is dropped
FetchAllPagesReturns ==
  /\ pc = "fetch"
  /\ AllStarted /\ AllDone
  /\ search_results' =
       {tasks[i].ret : i \in {j \in 1..Len(tasks) : tasks[j].ret.status = "ok"}}
  /\ pc' = "idle"
  /\ keywords' = <<>>
  /\ kwIdx' = 0
  /\ mapping' = <<>>
  /\ tasks' = <<>>
  /\ nextStart' = 1
  /\ faultsLeft' = 0
  /\ UNCHANGED <<storeVars, lastOp, auxVars, world, backend, today, cacheVars, permits, waiters, runs,
                 fetched>>

\* midnight passes between two runs
NextDay ==
  /\ pc = "idle"
  /\ today < MaxDay
  /\ today' = today + 1
  /\ fetched' = EmptyBag
  /\ lastOp' = NoOp("next_day")
  /\ UNCHANGED <<storeVars, auxVars, world, backend, cacheVars, pc, keywords, kwIdx, mapping,
                 tasks, nextStart, permits, waiters, search_results,
                 faultsLeft, runs>>

\* ------------------------------------------------------------ listing store
\* a date that is not set / a dict key that is missing
NoDate == 0
NoJobNo == ""

\* the value of a listing field the site sends along (jobName)
DefaultName == "Engineer"

\* a listing as fetch_all_pages + extract_jobs_from_results + add_metadata
\* hand it to process_jobs.  search_keyword is a Python str or list:
\* kw_is_str tells which, and the str k is kept as <<k>>; a dict without the
\* key 'search_keyword' (keyword = "") has kw_is_str = FALSE and <<>>
RawJobNamed(jobNo, keyword, jobName) ==
  [jobNo |-> jobNo, jobName |-> jobName,
   search_keyword |-> IF keyword = "" THEN <<>> ELSE <<keyword>>,
   kw_is_str |-> keyword # "",
   status |-> JOB_STATUS_ACTIVE, crawl_date |-> today,
   last_update_date |-> today, delisted_date |-> NoDate,
   discovery_date |-> NoDate]

RawJob(jobNo, keyword) == RawJobNamed(jobNo, keyword, DefaultName)

RawBatches ==
  UNION {[1..n -> {RawJob(id, k) : id \in JobIds, k \in Keywords}] :
           n \in 1..MaxBatch}

Range(f) == {f[x] : x \in DOMAIN f}

\* position of the record with this jobNo in a list of jobs, 0 if none
IndexOf(js, jobNo) ==
  IF \E i \in 1..Len(js) : js[i].jobNo = jobNo
    THEN CHOOSE i \in 1..Len(js) : js[i].jobNo = jobNo
    ELSE 0

\* a list that was appended to a list of keywords as one element
NestedList == "<list>"

\* job.get('search_keyword') as an element to look up and append: the str,
\* "" for a missing key or an empty list (both falsy), NestedList for a list
NewKeyword(job) ==
  IF job.kw_is_str THEN job.search_keyword[1]
  ELSE IF job.search_keyword = <<>> THEN "" ELSE NestedList

\* the loop body with the first-seen record replaced by the later one
MergeOneLastWins(job_by_id_map, job) ==
  LET k == IndexOf(job_by_id_map, job.jobNo)
  IN IF job.jobNo = NoJobNo
       THEN job_by_id_map
       ELSE IF k # 0
         THEN LET existing_keywords == job_by_id_map[k].search_keyword
                  new_keyword == NewKeyword(job)
              IN [job_by_id_map EXCEPT ![k] =
                    [job EXCEPT !.kw_is_str = FALSE, !.search_keyword =
                       IF new_keyword # ""
                            /\ new_keyword \notin Range(existing_keywords)
                         THEN Append(existing_keywords, new_keyword)
                         ELSE existing_keywords]]
         ELSE Append(job_by_id_map, [job EXCEPT !.kw_is_str = FALSE])

\* the loop body without the membership test before the append
MergeOneAlwaysAppend(job_by_id_map, job) ==
  LET k == IndexOf(job_by_id_map, job.jobNo)
  IN IF job.jobNo = NoJobNo
       THEN job_by_id_map
       ELSE IF k # 0
         THEN LET existing_keywords == job_by_id_map[k].search_keyword
                  new_keyword == NewKeyword(job)
              IN [job_by_id_map EXCEPT ![k].search_keyword =
                    IF new_keyword # ""
                      THEN Append(existing_keywords, new_keyword)
                      ELSE existing_keywords]
         ELSE Append(job_by_id_map, [job EXCEPT !.kw_is_str = FALSE])

\* one step of the loop of _merge_job_keywords over job_by_id_map (a dict,
\* kept here as the list of its values in insertion order)
MergeOne(job_by_id_map, job) ==
  LET k == IndexOf(job_by_id_map, job.jobNo)
  IN IF job.jobNo = NoJobNo
       THEN job_by_id_map
       ELSE IF k # 0
         THEN LET existing_keywords == job_by_id_map[k].search_keyword
                  new_keyword == NewKeyword(job)
              IN [job_by_id_map EXCEPT ![k].search_keyword =
                    IF new_keyword # ""
                         /\ new_keyword \notin Range(existing_keywords)
                      THEN Append(existing_keywords, new_keyword)
                      ELSE existing_keywords]
         ELSE Append(job_by_id_map, [job EXCEPT !.kw_is_str = FALSE])

RECURSIVE MergeFrom(_, _)
MergeFrom(job_by_id_map, js) ==
  IF js = <<>> THEN job_by_id_map
  ELSE MergeFrom(MergeOne(job_by_id_map, Head(js)), Tail(js))

\* JobDataProcessor._merge_job_keywords
merge_job_keywords(js) == MergeFrom(<<>>, js)

\* JobDataProcessor._process_job_status on one job
ProcessStatusOne(job, existing_jobs) ==
  IF existing_jobs[job.jobNo] = JOB_STATUS_INACTIVE
    THEN [job EXCEPT !.last_update_date = today,
                     !.status = JOB_STATUS_ACTIVE,
                     !.delisted_date = NoDate]
    ELSE [job EXCEPT !.last_update_date = today]

\* JobDataProcessor.process_jobs: merge, then the status step when
\* existing_jobs is not empty (the link/address step adds derived fields only)
process_jobs(js, existing_jobs) ==
  LET deduplicated_jobs == merge_job_keywords(js)
  IN IF \E id \in JobIds : existing_jobs[id] # "absent"
       THEN [i \in 1..Len(deduplicated_jobs) |->
               ProcessStatusOne(deduplicated_jobs[i], existing_jobs)]
       ELSE deduplicated_jobs

\* $set: every field the job dict carries overwrites the document's
DollarSet(doc, job) ==
  [doc EXCEPT !.status = job.status,
              !.jobName = job.jobName,
              !.search_keyword = job.search_keyword,
              !.kw_is_str = job.kw_is_str,
              !.crawl_date = job.crawl_date,
              !.last_update_date = job.last_update_date,
              !.delisted_date =
                 IF job.delisted_date # NoDate THEN job.delisted_date ELSE @,
              !.discovery_date =
                 IF job.discovery_date # NoDate THEN job.discovery_date ELSE @]

\* the write as a plain insert
MongoUpsertJobInsert(coll, job) ==
  coll (+) SetToBag({[job EXCEPT !.discovery_date = today]})

\* UpdateOne({'jobNo': ...}, {$set: job, $setOnInsert: {discovery_date}},
\* upsert=True)
MongoUpsertJob(coll, job) ==
  LET M == {d \in BagToSet(coll) : d.jobNo = job.jobNo}
  IN IF M = {}
       THEN coll (+) SetToBag({[job EXCEPT !.discovery_date = today]})
       ELSE LET d == CHOOSE x \in M : TRUE
            IN (coll (-) SetToBag({d})) (+) SetToBag({DollarSet(d, job)})

\* MongoDBManager.insert_jobs: bulk_write of one upsert per job, in order
RECURSIVE insert_jobs(_, _)
insert_jobs(coll, js) ==
  IF js = <<>> THEN coll
  ELSE insert_jobs(MongoUpsertJob(coll, Head(js)), Tail(js))

\* MongoDBManager.update_job_status: update_many({jobNo: {$nin: ids},
\* status: 'active'}, {$set: {status, last_update_date, delisted_date}});
\* update_many replaces every document by its image F(d)
MarkInactive(d) ==
  [d EXCEPT !.status = JOB_STATUS_INACTIVE, !.last_update_date = today,
            !.delisted_date = today]

\* the update without the test of the empty list
mongo_update_job_status_unguarded(coll, current_job_ids) ==
  LET F(d) == IF d.jobNo \notin current_job_ids
                     /\ d.status = JOB_STATUS_ACTIVE
                  THEN MarkInactive(d) ELSE d
      S == BagToSet(coll)
  IN [e \in {F(d) : d \in S} |->
        BagCardinality([d \in {x \in S : F(x) = e} |-> coll[d]])]

mongo_update_job_status(coll, current_job_ids) ==
  IF current_job_ids = {}
    THEN coll
    ELSE LET F(d) == IF d.jobNo \notin current_job_ids
                            /\ d.status = JOB_STATUS_ACTIVE
                         THEN MarkInactive(d) ELSE d
             S == BagToSet(coll)
         IN [e \in {F(d) : d \in S} |->
               BagCardinality([d \in {x \in S : F(x) = e} |-> coll[d]])]

\* MongoDBManager.reactivate_jobs: update_many({jobNo: {$in: ids}, status:
\* 'inactive'}, {$set: {status, last_update_date}, $unset: {delisted_date}})
Reactivate(d) ==
  [d EXCEPT !.status = JOB_STATUS_ACTIVE, !.last_update_date = today,
            !.delisted_date = NoDate]

mongo_reactivate_jobs(coll, job_ids) ==
  IF job_ids = {}
    THEN coll
    ELSE LET F(d) == IF d.jobNo \in job_ids
                            /\ d.status = JOB_STATUS_INACTIVE
                         THEN Reactivate(d) ELSE d
             S == BagToSet(coll)
         IN [e \in {F(d) : d \in S} |->
               BagCardinality([d \in {x \in S : F(x) = e} |-> coll[d]])]

\* FileJobStorage.save_jobs: self._jobs_cache[job["jobNo"]] = job
RECURSIVE file_save_jobs(_, _)
file_save_jobs(cache, js) ==
  IF js = <<>> THEN cache
  ELSE LET job == Head(js)
           c == IF job.jobNo = NoJobNo
                  THEN cache
                  ELSE [k \in DOMAIN cache \cup {job.jobNo} |->
                          IF k = job.jobNo THEN job ELSE cache[k]]
       IN file_save_jobs(c, Tail(js))

\* FileJobStorage.update_job_status
file_update_job_status(cache, current_job_ids) ==
  IF current_job_ids = {} \/ DOMAIN cache = {}
    THEN cache
    ELSE [k \in DOMAIN cache |->
            IF k \notin current_job_ids /\ cache[k].status = JOB_STATUS_ACTIVE
              THEN MarkInactive(cache[k]) ELSE cache[k]]

\* FileJobStorage.reactivate_jobs
file_reactivate_jobs(cache, job_ids) ==
  [k \in DOMAIN cache |->
     IF k \in job_ids /\ cache[k].status = JOB_STATUS_INACTIVE
       THEN Reactivate(cache[k]) ELSE cache[k]]

\* the listing documents the backend holds
StoredJobs ==
  IF backend = "mongo" THEN BagToSet(jobs) ELSE Range(jobs_cache)

\* JobStorage.get_existing_jobs: {jobNo -> status}
get_existing_jobs ==
  [id \in JobIds |->
     IF \E d \in StoredJobs : d.jobNo = id
       THEN (CHOOSE d \in StoredJobs : d.jobNo = id).status
       ELSE "absent"]

JobNos(js) == [i \in 1..Len(js) |-> js[i].jobNo]

\* JobStorage.save_jobs of the configured backend
save_jobs(js) ==
  IF backend = "mongo"
    THEN /\ jobs' = insert_jobs(jobs, js)
         /\ UNCHANGED jobs_cache
    ELSE /\ jobs_cache' = file_save_jobs(jobs_cache, js)
         /\ UNCHANGED jobs

\* a crawl that logs the exception and returns
CrawlReturnSwallow(save_raised) == [raised |-> FALSE, closed |-> TRUE]

\* how CrawlerOrchestrator.crawl ends: 'except Exception: raise' hands the
\* exception on, 'finally: self.close()' closes the storage on both paths
CrawlReturn(save_raised) == [raised |-> save_raised, closed |-> TRUE]

\* CrawlerOrchestrator.crawl from step 3 on (no suspension point is left):
\* all_jobs is what extract_jobs_from_results and add_metadata built from the
\* search results; get_existing_jobs, process_jobs, save_jobs
CrawlTail(all_jobs) ==
  /\ pc = "idle"
  /\ LET existing_jobs == get_existing_jobs
         processed_jobs == process_jobs(all_jobs, existing_jobs)
     IN /\ save_jobs(processed_jobs)
        /\ lastOp' = [op |-> "crawl", existing |-> existing_jobs,
                      jobNos |-> JobNos(all_jobs), keywords |-> {},
                      raised |-> CrawlReturn(FALSE).raised,
                      closed |-> CrawlReturn(FALSE).closed,
                      written |-> Range(JobNos(processed_jobs)), ret |-> 0]
  /\ UNCHANGED <<auxVars, world, backend, today, cacheVars, fetchVars>>

\* save_jobs raises at its k-th write and is called once: bulk_write (ordered)
\* has applied the k - 1 upserts before it; to_csv / json.dump of the file
\* backend raise before the cache is touched
save_jobs_fails(js, k) ==
  IF backend = "mongo"
    THEN /\ jobs' = insert_jobs(jobs, SubSeq(js, 1, k - 1))
         /\ UNCHANGED jobs_cache
    ELSE UNCHANGED <<jobs, jobs_cache>>

WrittenBefore(js, k) ==
  IF backend = "mongo" THEN Range(JobNos(SubSeq(js, 1, k - 1))) ELSE {}

\* CrawlerOrchestrator.crawl from step 3 on when storage.save_jobs raises at
\* the k-th listing of the processed batch
CrawlTailSaveFails(all_jobs, k) ==
  /\ pc = "idle"
  /\ LET existing_jobs == get_existing_jobs
         processed_jobs == process_jobs(all_jobs, existing_jobs)
     IN /\ k \in 1..Len(processed_jobs)
        /\ save_jobs_fails(processed_jobs, k)
        /\ lastOp' = [op |-> "crawl_save_failed", existing |-> existing_jobs,
                      jobNos |-> JobNos(all_jobs), keywords |-> {},
                      raised |-> CrawlReturn(TRUE).raised,
                      closed |-> CrawlReturn(TRUE).closed,
                      written |-> WrittenBefore(processed_jobs, k), ret |-> 0]
  /\ UNCHANGED <<auxVars, world, backend, today, cacheVars, fetchVars>>

\* the jobs a caller may hand to save_jobs directly (processed form)
SavedJob(jobNo, keyword) ==
  [RawJob(jobNo, keyword) EXCEPT !.kw_is_str = FALSE]

SaveBatches ==
  UNION {[1..n -> {SavedJob(id, k) : id \in JobIds, k \in Keywords}] :
           n \in 1..MaxBatch}

\* ListingStorage.saveListings called by itself
ApiSaveJobs(js) ==
  /\ pc = "idle"
  /\ save_jobs(js)
  /\ lastOp' = [op |-> "save_jobs", existing |-> get_existing_jobs,
                jobNos |-> JobNos(js), keywords |-> {}, raised |-> FALSE,
                closed |-> FALSE, written |-> Range(JobNos(js)), ret |-> 0]
  /\ UNCHANGED <<auxVars, world, backend, today, cacheVars, fetchVars>>

\* a list of the IDs of a set, in a fixed order
RECURSIVE SetToSeq(_)
SetToSeq(S) ==
  IF S = {} THEN <<>>
  ELSE LET x == CHOOSE y \in S : TRUE IN <<x>> \o SetToSeq(S \ {x})

\* what update_job_status returns: 0 at once for an empty list (and for an
\* empty cache of the file backend), else the number of listings it changed
update_job_status_count(current_job_ids) ==
  IF current_job_ids = {}
    THEN 0
    ELSE IF backend = "mongo"
      THEN BagCardinality(
             [d \in {x \in BagToSet(jobs) :
                       x.jobNo \notin current_job_ids
                         /\ x.status = JOB_STATUS_ACTIVE} |-> jobs[d]])
      ELSE Cardinality({k \in DOMAIN jobs_cache :
                          k \notin current_job_ids
                            /\ jobs_cache[k].status = JOB_STATUS_ACTIVE})

\* ListingStorage.markMissingInactive
ApiUpdateJobStatus(current_job_ids) ==
  /\ pc = "idle"
  /\ IF backend = "mongo"
       THEN /\ jobs' = mongo_update_job_status(jobs, current_job_ids)
            /\ UNCHANGED jobs_cache
       ELSE /\ jobs_cache' = file_update_job_status(jobs_cache, current_job_ids)
            /\ UNCHANGED jobs
  /\ lastOp' = [op |-> "update_job_status", existing |-> get_existing_jobs,
                jobNos |-> SetToSeq(current_job_ids), keywords |-> {},
                raised |-> FALSE, closed |-> FALSE, written |-> {},
                ret |-> update_job_status_count(current_job_ids)]
  /\ UNCHANGED <<auxVars, world, backend, today, cacheVars, fetchVars>>

\* ListingStorage.reactivate
ApiReactivateJobs(job_ids) ==
  /\ pc = "idle"
  /\ IF backend = "mongo"
       THEN /\ jobs' = mongo_reactivate_jobs(jobs, job_ids)
            /\ UNCHANGED jobs_cache
       ELSE /\ jobs_cache' = file_reactivate_jobs(jobs_cache, job_ids)
            /\ UNCHANGED jobs
  /\ lastOp' = [op |-> "reactivate_jobs", existing |-> get_existing_jobs,
                jobNos |-> SetToSeq(job_ids), keywords |-> {},
                raised |-> FALSE, closed |-> FALSE, written |-> {}, ret |-> 0]
  /\ UNCHANGED <<auxVars, world, backend, today, cacheVars, fetchVars>>

CrawlTailAny == \E all_jobs \in RawBatches : CrawlTail(all_jobs)
ApiSaveJobsAny == \E js \in SaveBatches : ApiSaveJobs(js)
ApiUpdateJobStatusAny == \E ids \in SUBSET JobIds : ApiUpdateJobStatus(ids)
ApiReactivateJobsAny == \E ids \in SUBSET JobIds : ApiReactivateJobs(ids)

NextStore ==
  \/ CrawlTailAny
  \/ ApiSaveJobsAny
  \/ ApiUpdateJobStatusAny
  \/ ApiReactivateJobsAny
  \/ NextDay

SpecStore == Init /\ [][NextStore]_vars

CrawlTailSaveFailsAny ==
  \E all_jobs \in RawBatches : \E k \in 1..MaxBatch :
    CrawlTailSaveFails(all_jobs, k)

\* runs whose batch-level save may fail, over days
NextSave ==
  \/ CrawlTailAny
  \/ CrawlTailSaveFailsAny
  \/ NextDay

SpecSave == Init /\ [][NextSave]_vars

\* ------------------------------------------------------------ reconciliation
\* Crawler._merge_job_keywords (crawler.py), one step of its loop: job["jobNo"]
\* raises KeyError on a dict without the key; acc is [raised, jobs]
CrawlerMergeOne(acc, job) ==
  LET k == IndexOf(acc.jobs, job.jobNo)
      new_keyword == IF job.kw_is_str THEN job.search_keyword[1]
                                      ELSE NestedList
  IN IF acc.raised THEN acc
     ELSE IF job.jobNo = NoJobNo THEN [acc EXCEPT !.raised = TRUE]
     ELSE IF k # 0
       THEN [acc EXCEPT !.jobs[k].search_keyword =
               IF new_keyword \notin Range(@) THEN Append(@, new_keyword)
                                              ELSE @]
       ELSE [acc EXCEPT !.jobs = Append(@, [job EXCEPT !.kw_is_str = FALSE])]

RECURSIVE CrawlerMergeFrom(_, _)
CrawlerMergeFrom(acc, js) ==
  IF js = <<>> THEN acc
  ELSE CrawlerMergeFrom(CrawlerMergeOne(acc, Head(js)), Tail(js))

\* Crawler._merge_job_keywords
crawler_merge_job_keywords(js) ==
  CrawlerMergeFrom([raised |-> FALSE, jobs |-> <<>>], js)

\* _merge_job_keywords of the implementation at hand, as [raised, jobs]
MergeBy(impl, js) ==
  IF impl = "processor"
    THEN [raised |-> FALSE, jobs |-> merge_job_keywords(js)]
    ELSE crawler_merge_job_keywords(js)

\* the jobNo and jobName values of the raw listings of a batch
RawJobNos == JobIds \cup {NoJobNo}
JobNames == {DefaultName, "Developer"}

\* the raw batches handed to reconciliation
ProcBatches ==
  UNION {[1..n -> {RawJobNamed(id, k, nm) :
                     id \in RawJobNos, k \in Keywords, nm \in JobNames}] :
           n \in 1..MaxRaw}

\* the prior states: {jobNo -> status} as get_existing_jobs returns it
PriorStates ==
  [JobIds -> {"absent", JOB_STATUS_ACTIVE, JOB_STATUS_INACTIVE}]

ProcNew(impl, js, existing_jobs) ==
  [pc |-> "new", impl |-> impl, jobs |-> js, existing_jobs |-> existing_jobs,
   merged |-> [raised |-> FALSE, jobs |-> <<>>], out1 |-> <<>>, out2 |-> <<>>]

\* the caller's list after a call: the dicts are changed in place, so the
\* first record of every jobNo is now the record of the output
InPlace(js, out) ==
  [i \in 1..Len(js) |->
     IF js[i].jobNo # NoJobNo
          /\ IndexOf(js, js[i].jobNo) = i
          /\ IndexOf(out, js[i].jobNo) # 0
       THEN out[IndexOf(out, js[i].jobNo)]
       ELSE js[i]]

\* _merge_job_keywords(jobs) is called on the batch
MergeBatch ==
  /\ proc.pc = "new"
  /\ proc' = [proc EXCEPT !.pc = "merged",
                          !.merged = MergeBy(proc.impl, proc.jobs)]
  /\ UNCHANGED <<world, backend, today, cacheVars, fetchVars, storeVars,
                 lastOp, http>>

\* JobDataProcessor.process_jobs(jobs, existing_jobs) is called on the batch
ProcessJobs ==
  /\ proc.pc = "new"
  /\ proc.impl = "processor"
  /\ LET out == process_jobs(proc.jobs, proc.existing_jobs)
     IN proc' = [proc EXCEPT !.pc = "once", !.out1 = out,
                             !.jobs = InPlace(proc.jobs, out)]
  /\ UNCHANGED <<world, backend, today, cacheVars, fetchVars, storeVars,
                 lastOp, http>>

\* process_jobs is called again on the same list and the same prior state
ProcessJobsAgain ==
  /\ proc.pc = "once"
  /\ LET out == process_jobs(proc.jobs, proc.existing_jobs)
     IN proc' = [proc EXCEPT !.pc = "twice", !.out2 = out,
                             !.jobs = InPlace(proc.jobs, out)]
  /\ UNCHANGED <<world, backend, today, cacheVars, fetchVars, storeVars,
                 lastOp, http>>

InitProc ==
  /\ InitWorld(GateWorld)
  /\ http = HttpNew("ua1")
  /\ proc \in {ProcNew("processor", js, e) : js \in ProcBatches, e \in PriorStates}
              \cup {ProcNew("crawler", js, [id \in JobIds |-> "absent"]) :
                      js \in ProcBatches}

NextProc ==
  \/ MergeBatch
  \/ ProcessJobs
  \/ ProcessJobsAgain

SpecProc == InitProc /\ [][NextProc]_vars

\* ------------------------------------------------------- the legacy crawler
\* MongoDBManager.get_existing_jobs: {jobNo -> status} of the collection
mongo_get_existing_jobs(coll) ==
  [id \in JobIds |->
     IF \E d \in BagToSet(coll) : d.jobNo = id
       THEN (CHOOSE d \in BagToSet(coll) : d.jobNo = id).status
       ELSE "absent"]

\* Crawler._process_job_status, the part that changes the job dicts
CrawlerStatusOne(job, existing_job_dict) ==
  IF existing_job_dict[job.jobNo] = JOB_STATUS_INACTIVE
    THEN [job EXCEPT !.last_update_date = today, !.status = JOB_STATUS_ACTIVE]
    ELSE [job EXCEPT !.last_update_date = today]

\* the status step with the reactivation only
CrawlerStatusStoreGuarded(coll, js) ==
  LET existing_job_dict == mongo_get_existing_jobs(coll)
  IN mongo_reactivate_jobs(
       coll,
       {id \in Range(JobNos(js)) : existing_job_dict[id] = JOB_STATUS_INACTIVE})

\* Crawler._process_job_status, the part that changes the collection:
\* update_job_status(current_job_ids) and reactivate_jobs(reactivate_job_ids),
\* both only when the collection holds a listing
CrawlerStatusStore(coll, js) ==
  LET existing_job_dict == mongo_get_existing_jobs(coll)
      current_job_ids == Range(JobNos(js))
      reactivate_job_ids ==
        {id \in current_job_ids : existing_job_dict[id] = JOB_STATUS_INACTIVE}
  IN IF \E id \in JobIds : existing_job_dict[id] # "absent"
       THEN mongo_reactivate_jobs(mongo_update_job_status(coll, current_job_ids),
                                  reactivate_job_ids)
       ELSE coll

\* the keyword lists and raw batches of a legacy run: every listing was found
\* under a keyword of the run
CrawlerRuns ==
  {r \in [keywords : SUBSET Keywords \ {{}},
           all_jobs : RawBatches \cup {<<>>}] :
     \A i \in 1..Len(r.all_jobs) :
       r.all_jobs[i].search_keyword[1] \in r.keywords}

\* Crawler.process_jobs_data on the listings a run over `kws` has found:
\* it returns at once when there is none ('if not all_jobs: return'), else
\* _merge_job_keywords, _process_job_status, _save_jobs_data (insert_jobs)
\* (its MongoDBManager() works on the collection of the MongoDB backend)
CrawlerProcessJobsData(kws, all_jobs) ==
  /\ pc = "idle"
  /\ backend = "mongo"
  /\ LET deduplicated_jobs == crawler_merge_job_keywords(all_jobs).jobs
         existing_job_dict == mongo_get_existing_jobs(jobs)
         processed ==
           [i \in 1..Len(deduplicated_jobs) |->
              CrawlerStatusOne(deduplicated_jobs[i], existing_job_dict)]
     IN /\ jobs' = IF all_jobs = <<>>
                      THEN jobs
                      ELSE insert_jobs(
                             CrawlerStatusStore(jobs, deduplicated_jobs),
                             processed)
        /\ lastOp' = [op |-> "process_jobs_data",
                      existing |-> existing_job_dict,
                      jobNos |-> JobNos(all_jobs), keywords |-> kws,
                      raised |-> FALSE, closed |-> TRUE,
                      written |-> Range(JobNos(processed)), ret |-> 0]
  /\ UNCHANGED <<jobs_cache, auxVars, world, backend, today, cacheVars,
                 fetchVars>>

CrawlerProcessJobsDataAny ==
  \E r \in CrawlerRuns : CrawlerProcessJobsData(r.keywords, r.all_jobs)

\* legacy runs over days
NextLegacy ==
  \/ CrawlerProcessJobsDataAny
  \/ NextDay

SpecLegacy == Init /\ [][NextLegacy]_vars

\* saves, deactivation calls and legacy runs, over days
NextDeact ==
  \/ ApiSaveJobsAny
  \/ ApiUpdateJobStatusAny
  \/ CrawlerProcessJobsDataAny
  \/ NextDay

SpecDeact == Init /\ [][NextDeact]_vars

\* ------------------------------------------------------------ address split
\* the characters of an address, by what the patterns of split_city_district
\* make of them: "shi" is in both classes [市縣] and [區鄉鎮市], "xian" in
\* [市縣] only, "qu" (區 鄉 鎮) in [區鄉鎮市] only, "x" in neither, "nl" is a
\* newline, which '.' does not match and before which '$' matches at the end
AddrChars == {"shi", "xian", "qu", "x", "nl"}
CitySuffix == {"shi", "xian"}
DistrictSuffix == {"qu", "shi"}

Addresses == UNION {[1..n -> AddrChars] : n \in 0..MaxAddr}

\* '.*?' over address[from..to]: every character but a newline
DotRun(address, from, to) == \A k \in from..to : address[k] # "nl"

\* '$' after k characters: the end, or just before a newline that ends the string
AtDollar(address, k) ==
  \/ k = Len(address)
  \/ k = Len(address) - 1 /\ address[Len(address)] = "nl"

\* the ways r"^(.*?[市縣])(.*?[區鄉鎮市])$" matches: group 1 ends at i, group 2 at j
Matches2(address) ==
  {m \in (1..Len(address)) \X (1..Len(address)) :
     /\ m[1] < m[2]
     /\ DotRun(address, 1, m[1] - 1)
     /\ address[m[1]] \in CitySuffix
     /\ DotRun(address, m[1] + 1, m[2] - 1)
     /\ address[m[2]] \in DistrictSuffix
     /\ AtDollar(address, m[2])}

\* the ways r"^(.*?[市縣])$" matches: group 1 ends at i
Matches1(address) ==
  {i \in 1..Len(address) :
     /\ DotRun(address, 1, i - 1)
     /\ address[i] \in CitySuffix
     /\ AtDollar(address, i)}

\* the match re.match reports: a lazy group is tried shortest first
FirstMatch2(address) ==
  CHOOSE m \in Matches2(address) :
    \A o \in Matches2(address) :
      m[1] < o[1] \/ (m[1] = o[1] /\ m[2] <= o[2])

FirstMatch1(address) ==
  CHOOSE i \in Matches1(address) : \A o \in Matches1(address) : i <= o

\* the split with the city-only pattern tried first
split_city_district_city_first(address) ==
  IF Matches1(address) # {}
    THEN [city |-> SubSeq(address, 1, FirstMatch1(address)), district |-> <<>>]
    ELSE IF Matches2(address) # {}
      THEN LET m == FirstMatch2(address)
           IN [city |-> SubSeq(address, 1, m[1]),
               district |-> SubSeq(address, m[1] + 1, m[2])]
      ELSE [city |-> <<>>, district |-> address]

\* text_processing.split_city_district: the patterns in list order, then the
\* fallback ("", address)
split_city_district(address) ==
  IF Matches2(address) # {}
    THEN LET m == FirstMatch2(address)
         IN [city |-> SubSeq(address, 1, m[1]),
             district |-> SubSeq(address, m[1] + 1, m[2])]
    ELSE IF Matches1(address) # {}
      THEN [city |-> SubSeq(address, 1, FirstMatch1(address)),
            district |-> <<>>]
      ELSE [city |-> <<>>, district |-> address]

AddrNew(address) ==
  [pc |-> "address", address |-> address,
   ret |-> [city |-> <<>>, district |-> <<>>]]

\* split_city_district(address) is called
SplitCityDistrict ==
  /\ proc.pc = "address"
  /\ proc' = [proc EXCEPT !.pc = "split",
                          !.ret = split_city_district(proc.address)]
  /\ UNCHANGED <<world, backend, today, cacheVars, fetchVars, storeVars,
                 lastOp, http>>

InitAddr ==
  /\ InitWorld(GateWorld)
  /\ http = HttpNew("ua1")
  /\ proc \in {AddrNew(address) : address \in Addresses}

NextAddr == SplitCityDistrict

SpecAddr == InitAddr /\ [][NextAddr]_vars

\* ------------------------------------------------- the two backends abreast
\* FileJobStorage.get_existing_jobs: {jobNo -> status} of the cache
file_get_existing_jobs(cache) ==
  [id \in JobIds |->
     IF id \in DOMAIN cache THEN cache[id].status ELSE "absent"]

\* the tasks whose records are saved and looked up: the probe and the first
\* page of one keyword
CacheTasks ==
  {NewTask(role, "python", build_url("python", AreaList[1], 1)) :
     role \in {"probe", "page"}}

\* the records the searcher saves for them
CacheRecords ==
  {FirstPageRecord(t, "data", 1) : t \in {u \in CacheTasks : u.role = "probe"}}
    \cup {PageRecord(t, a) :
            t \in {u \in CacheTasks : u.role = "page"}, a \in {"data", "scalar"}}

\* the same call is made on a MongoDBJobStorage and on a FileJobStorage
BothSaveJobs(js) ==
  /\ pc = "idle"
  /\ jobs' = insert_jobs(jobs, js)
  /\ jobs_cache' = file_save_jobs(jobs_cache, js)
  /\ lastOp' = NoOp("save_jobs")
  /\ UNCHANGED <<auxVars, world, backend, today, cacheVars, fetchVars>>

BothUpdateJobStatus(current_job_ids) ==
  /\ pc = "idle"
  /\ jobs' = mongo_update_job_status(jobs, current_job_ids)
  /\ jobs_cache' = file_update_job_status(jobs_cache, current_job_ids)
  /\ lastOp' = NoOp("update_job_status")
  /\ UNCHANGED <<auxVars, world, backend, today, cacheVars, fetchVars>>

BothReactivateJobs(job_ids) ==
  /\ pc = "idle"
  /\ jobs' = mongo_reactivate_jobs(jobs, job_ids)
  /\ jobs_cache' = file_reactivate_jobs(jobs_cache, job_ids)
  /\ lastOp' = NoOp("reactivate_jobs")
  /\ UNCHANGED <<auxVars, world, backend, today, cacheVars, fetchVars>>

BothSaveSearchResult(result) ==
  /\ pc = "idle"
  /\ daily' = MongoSaveSearchResult(daily, result)
  /\ search_results_cache' = FileSaveSearchResult(search_results_cache, result)
  /\ lastOp' = NoOp("save_search_result")
  /\ UNCHANGED <<auxVars, world, backend, today, storeVars, fetchVars>>

BothSaveJobsAny ==
  \E js \in {b \in SaveBatches : Len(b) = 1} : BothSaveJobs(js)
BothUpdateJobStatusAny == \E ids \in SUBSET JobIds : BothUpdateJobStatus(ids)
BothReactivateJobsAny == \E ids \in SUBSET JobIds : BothReactivateJobs(ids)
BothSaveSearchResultAny == \E r \in CacheRecords : BothSaveSearchResult(r)

NextBoth ==
  \/ BothSaveJobsAny
  \/ BothUpdateJobStatusAny
  \/ BothReactivateJobsAny
  \/ BothSaveSearchResultAny
  \/ NextDay

SpecBoth == Init /\ [][NextBoth]_vars

RunStartAny == \E kws \in world.kwLists : RunStart(kws)
AttemptFailsAny == \E i \in InFlight : AttemptFails(i)

\* runs over days with few pages: a gather never has more than MaxPages + 1
\* coroutines, the semaphore never runs out and nobody waits for a permit
Next ==
  \/ RunStartAny
  \/ StartTask
  \/ AttemptFailsAny
  \/ RespondAny
  \/ SearchKeywordReturns
  \/ FetchAllPagesReturns
  \/ NextDay

\* one run with more pages than permits
NextGate ==
  \/ RunStartAny
  \/ StartTask
  \/ AcquirePermit
  \/ AttemptFailsAny
  \/ RespondAny
  \/ SearchKeywordReturns
  \/ FetchAllPagesReturns

\* calls of HttpAdapter.async_request, one after the other
NextHttp ==
  \/ AsyncRequestStart
  \/ RoundForbidden
  \/ RoundTooManyRequests
  \/ RoundError
  \/ RoundOk

Spec == Init /\ [][Next]_vars
SpecHttp == InitHttp /\ [][NextHttp]_vars
SpecGate == InitGate /\ [][NextGate]_vars

\* the runs under the scheduling the code relies on: the event loop runs
\* every coroutine that is ready (the first step of a gathered coroutine, the
\* continuation after a completed gather), and every HTTP request that is
\* awaited returns; nothing obliges a caller to start a run or a day to pass
Fairness ==
  /\ WF_vars(StartTask)
  /\ WF_vars(RespondAny)
  /\ WF_vars(SearchKeywordReturns)
  /\ WF_vars(FetchAllPagesReturns)

SpecLive == InitLive /\ [][Next]_vars /\ Fairness

\* ------------------------------------------------------------------ claims

\* C1: in every crawl run the number of requests in flight (between taking
\* the semaphore and producing the outcome) never exceeds MAX_CONCURRENCY
C1_ConcurrencyBound == Cardinality(InFlight) <= MAX_CONCURRENCY

\* the gate is full, a coroutine that had to queue has got its permit, and
\* a request has been retried
C1_GateFullAfterQueueing ==
  /\ Cardinality(InFlight) = MAX_CONCURRENCY
  /\ \E i \in InFlight : i > MAX_CONCURRENCY
  /\ \E j \in 1..Len(tasks) : tasks[j].attempts > 1

\* C6: a page fetch whose request failed (transport error marker, or a
\* payload without 'data') is returned and stored with status=error and an
\* empty payload, never with status=ok
C6_FailedFetchIsError ==
  \A i \in 1..Len(tasks) :
    (/\ tasks[i].role = "page"
     /\ tasks[i].pc = "done"
     /\ tasks[i].resp \in {"errmarker", "nodata"})
    => /\ tasks[i].ret.status = "error"
       /\ tasks[i].ret.result = EmptyResult
       /\ \A d \in StoredRecords :
            SameKey(d, tasks[i].ret)
              => d.status = "error" /\ d.result = EmptyResult

\* C7: on every backend, a first-page probe that finds a status=ok record of
\* today for its URL returns the stored URL list and issues no request
C7_CachedProbeNoRequest ==
  \A i \in 1..Len(tasks) :
    (tasks[i].role = "probe" /\ tasks[i].hit)
    => /\ tasks[i].pc = "done"
       /\ tasks[i].attempts = 0
       /\ tasks[i].ret.status = "ok"
       /\ tasks[i].ret.result.kind = "urls"

\* C8: for every URL and day at most one request for it is answered with
\* data, over all runs of the day (the page-1 URL is not fetched as probe
\* and again as page)
C8_OneFetchPerUrlPerDay ==
  \A u \in BagToSet(fetched) : CopiesIn(u, fetched) <= 1

\* C9: storage holds at most one SearchRunRecord per composite key
\* (day, keyword, first-URL, crawl-URL), whatever was saved and retried
C9_OneRecordPerKey ==
  /\ \A d \in BagToSet(daily) :
       /\ CopiesIn(d, daily) = 1
       /\ \A e \in BagToSet(daily) : SameKey(d, e) => d = e
  /\ \A k \in DOMAIN search_results_cache :
       FileKey(search_results_cache[k]) = k

\* a request that succeeded after a retry has saved its record over the
\* record an earlier run left under the same key, and one record is there
C9_SavedOverAfterRetry ==
  \E i \in 1..Len(tasks) :
    /\ tasks[i].pc = "done"
    /\ tasks[i].attempts > 1
    /\ tasks[i].over
    /\ tasks[i].ret.status = "ok"
    /\ Cardinality({d \in StoredRecords : SameKey(d, tasks[i].ret)}) = 1

\* number of listing documents stored under a jobNo
DocCount(id) ==
  IF backend = "mongo"
    THEN BagCardinality([d \in {x \in BagToSet(jobs) : x.jobNo = id} |-> jobs[d]])
    ELSE Cardinality({k \in DOMAIN jobs_cache : jobs_cache[k].jobNo = id})

\* the {jobNo -> set of keywords} the store holds
StoredKeywords ==
  [id \in JobIds |->
     IF \E d \in StoredJobs : d.jobNo = id
       THEN UNION {Range(d.search_keyword) : d \in {x \in StoredJobs : x.jobNo = id}}
       ELSE {}]

Saved == lastOp.op \in {"crawl", "save_jobs"}

\* C2: on the document store, after any sequence of saves, deactivations
\* and reactivations, a listing is inactive iff its delisted_date is set
C2_StatusDelistedCoupling ==
  backend = "mongo"
    => \A d \in BagToSet(jobs) :
         (d.status = JOB_STATUS_INACTIVE) <=> (d.delisted_date # NoDate)

\* C3: a crawl run never removes a keyword from a persisted listing
C3_KeywordsNeverShrink ==
  [][lastOp'.op = "crawl"
       => \A id \in JobIds : StoredKeywords[id] \subseteq StoredKeywords'[id]]_vars

\* C4: after an orchestrator run that discovered some listing, every listing
\* that was active before and was not discovered is inactive, delisted today
C4_MissingMarkedInactive ==
  (lastOp.op = "crawl" /\ lastOp.jobNos # <<>>)
    => \A id \in JobIds :
         (lastOp.existing[id] = JOB_STATUS_ACTIVE /\ id \notin Range(lastOp.jobNos))
           => \E d \in StoredJobs :
                /\ d.jobNo = id
                /\ d.status = JOB_STATUS_INACTIVE
                /\ d.delisted_date = today
                /\ d.last_update_date = today

\* C5: after a run that re-discovered an inactive listing, the listing is
\* active, has no delisted_date and was updated today
C5_RediscoveredReactivated ==
  lastOp.op = "crawl"
    => \A id \in JobIds :
         (lastOp.existing[id] = JOB_STATUS_INACTIVE /\ id \in Range(lastOp.jobNos))
           => \A d \in StoredJobs :
                d.jobNo = id
                  => /\ d.status = JOB_STATUS_ACTIVE
                     /\ d.delisted_date = NoDate
                     /\ d.last_update_date = today

\* C10: storage holds exactly one listing document per saved jobNo, however
\* the IDs of the saved batches overlap
C10_OneDocPerJobNo ==
  \A id \in JobIds :
    /\ DocCount(id) <= 1
    /\ (Saved /\ id \in Range(lastOp.jobNos)) => DocCount(id) = 1
    /\ \A k \in DOMAIN jobs_cache : jobs_cache[k].jobNo = k

\* a batch that names a known ID, and names an ID twice, has been saved
C10_OverlappingBatchSaved ==
  /\ lastOp.op = "save_jobs"
  /\ \E i, j \in 1..Len(lastOp.jobNos) :
       /\ i # j
       /\ lastOp.jobNos[i] = lastOp.jobNos[j]
       /\ lastOp.existing[lastOp.jobNos[i]] # "absent"
       /\ DocCount(lastOp.jobNos[i]) = 1

\* the documents stored under a jobNo
DocsOf(id) == {d \in StoredJobs : d.jobNo = id}

\* C11: a listing's discovery_date is the date of the save that inserted it,
\* and no later save, deactivation or reactivation changes it
C11_DiscoveryDateSetOnce ==
  [][\A id \in JobIds :
       \A e \in DocsOf(id)' :
         IF DocsOf(id) = {}
           THEN e.discovery_date = today
           ELSE \A d \in DocsOf(id) : e.discovery_date = d.discovery_date]_vars

\* positions of the trace of the call under way, by kind of entry
Sends == {i \in 1..Len(http.log) : http.log[i].ev = "send"}
ResponsesWith(code) ==
  {i \in 1..Len(http.log) :
     http.log[i].ev = "response" /\ http.log[i].code = code}

\* the first request sent after position i of the trace, 0 if none
NextSend(i) ==
  IF \E j \in Sends : j > i THEN CHOOSE j \in Sends : j > i /\ \A k \in Sends : k > i => j <= k
  ELSE 0

\* C14: an async_request call makes at most MAX_RETRIES network attempts,
\* whatever the responses are, and when the last allowed attempt fails it
\* returns the error marker
C14_AttemptsBounded ==
  /\ Cardinality(Sends) <= MAX_RETRIES
  /\ http.pc = "returned" => http.ret \in {"payload", "error"}
  /\ (Cardinality(Sends) = MAX_RETRIES /\ ResponsesWith(200) = {}
        /\ http.log[Len(http.log)].ev # "send")
       => http.pc = "returned" /\ http.ret = "error"

\* a call has returned the error marker after MAX_RETRIES attempts that met
\* a 403, a 429 and another failure
C14_ExhaustedOnMixedFailures ==
  /\ http.pc = "returned"
  /\ http.ret = "error"
  /\ Cardinality(Sends) = MAX_RETRIES
  /\ ResponsesWith(403) # {}
  /\ ResponsesWith(429) # {}
  /\ ResponsesWith(500) \cup ResponsesWith(0) # {}

\* the last request sent before position i of the trace
LastSend(i) == CHOOSE j \in Sends : j < i /\ \A k \in Sends : k < i => k <= j

\* C15: after HTTP 429 the transport waits exactly the Retry-After value
\* (60 when the header is absent) before the next attempt, and nothing more
C15_WaitsExactlyRetryAfter ==
  \A i \in ResponsesWith(429) :
    (NextSend(i) # 0 /\ RetryAfterSeconds(http.log[i].retry_after) >= 0)
      => /\ NextSend(i) = i + 2
         /\ http.log[i + 1] =
              SleepEvent("sleep_retry_after",
                         RetryAfterSeconds(http.log[i].retry_after))

\* C16: after HTTP 403 a User-Agent is picked from the pool and the next
\* attempt of the request is sent with it, not with the blocked one
C16_RetryUsesNewUserAgent ==
  \A i \in ResponsesWith(403) :
    NextSend(i) # 0
      => /\ http.log[i + 1].ev = "update_user_agent"
         /\ http.log[i + 1].ua \in UserAgents
         /\ http.log[NextSend(i)].ua = http.log[i + 1].ua
         /\ http.log[NextSend(i)].ua # http.log[LastSend(i)].ua

\* the records of a batch that carry a jobNo
WithJobNo(js) == {i \in 1..Len(js) : js[i].jobNo # NoJobNo}

\* the keywords under which a jobNo occurs in a raw batch
KeywordsOf(js, jobNo) ==
  {js[i].search_keyword[1] : i \in {j \in WithJobNo(js) : js[j].jobNo = jobNo}}

NoDuplicates(seq) == \A i, j \in 1..Len(seq) : seq[i] = seq[j] => i = j

\* C12: _merge_job_keywords returns exactly one record per distinct jobNo of
\* the batch; the record is the first-seen one with every field but the
\* keywords unchanged, and its keywords are those of the whole group, once each
C12_MergeOneRecordPerId ==
  (proc.pc = "merged" /\ ~proc.merged.raised)
    => LET js == proc.jobs
           out == proc.merged.jobs
       IN /\ {out[i].jobNo : i \in 1..Len(out)}
               = {js[i].jobNo : i \in WithJobNo(js)}
          /\ \A i, j \in 1..Len(out) : out[i].jobNo = out[j].jobNo => i = j
          /\ \A i \in 1..Len(out) :
               LET first == js[IndexOf(js, out[i].jobNo)]
               IN /\ [out[i] EXCEPT !.search_keyword = <<>>]
                       = [first EXCEPT !.search_keyword = <<>>,
                                       !.kw_is_str = FALSE]
                  /\ Range(out[i].search_keyword) = KeywordsOf(js, out[i].jobNo)
                  /\ NoDuplicates(out[i].search_keyword)

\* a batch in which a jobNo occurs under two keywords and with two different
\* names, and again under the first keyword, has been merged
C12_GroupMerged ==
  /\ proc.pc = "merged"
  /\ ~proc.merged.raised
  /\ \E i, j, k \in 1..Len(proc.jobs) :
       /\ i < j /\ j < k
       /\ proc.jobs[i].jobNo # NoJobNo
       /\ proc.jobs[i].jobNo = proc.jobs[j].jobNo
       /\ proc.jobs[i].jobNo = proc.jobs[k].jobNo
       /\ proc.jobs[i].search_keyword # proc.jobs[j].search_keyword
       /\ proc.jobs[i].search_keyword = proc.jobs[k].search_keyword
       /\ proc.jobs[i].jobName # proc.jobs[j].jobName
  /\ Len(proc.merged.jobs) = 1
  /\ Len(proc.merged.jobs[1].search_keyword) = 2

\* the listing set of an output of process_jobs: what each jobNo carries
ListingSet(out) == {out[i] : i \in 1..Len(out)}

\* C13: process_jobs run a second time on the same batch against the same
\* prior state gives the listing set of the first run: the same jobNos, one
\* record per jobNo, the same keywords and none of them twice
C13_ProcessJobsIdempotent ==
  proc.pc = "twice"
    => /\ ListingSet(proc.out2) = ListingSet(proc.out1)
       /\ Len(proc.out2) = Len(proc.out1)
       /\ \A i, j \in 1..Len(proc.out2) :
            proc.out2[i].jobNo = proc.out2[j].jobNo => i = j
       /\ \A i \in 1..Len(proc.out2) :
            /\ NoDuplicates(proc.out2[i].search_keyword)
            /\ proc.out2[i].search_keyword = proc.out1[i].search_keyword

\* process_jobs has run twice on a batch that holds a jobNo under two
\* keywords, against a prior state in which that listing was inactive
C13_RanTwiceOnDuplicates ==
  /\ proc.pc = "twice"
  /\ \E i \in 1..Len(proc.out2) :
       /\ Len(proc.out2[i].search_keyword) = 2
       /\ proc.existing_jobs[proc.out2[i].jobNo] = JOB_STATUS_INACTIVE
       /\ proc.out2[i].status = JOB_STATUS_ACTIVE

HasJobNo(job) == job.jobNo # NoJobNo

\* C18: a raw listing without a jobNo is dropped by the merge without raising:
\* it is not in the output, and the output is what the batch without the
\* malformed listings gives
C18_MissingJobNoDropped ==
  (proc.pc = "merged" /\ \E i \in 1..Len(proc.jobs) : ~HasJobNo(proc.jobs[i]))
    => /\ ~proc.merged.raised
       /\ \A i \in 1..Len(proc.merged.jobs) : HasJobNo(proc.merged.jobs[i])
       /\ proc.merged = MergeBy(proc.impl, SelectSeq(proc.jobs, HasJobNo))

\* C17: the deactivation step of a run never makes inactive an active listing
\* whose recorded keywords are disjoint from the keywords of the run
C17_UnsearchedNotDeactivated ==
  [][lastOp'.op = "process_jobs_data"
       => \A d \in BagToSet(jobs) :
            (/\ d.status = JOB_STATUS_ACTIVE
             /\ Range(d.search_keyword) \cap lastOp'.keywords = {})
            => \E e \in BagToSet(jobs') :
                 e.jobNo = d.jobNo /\ e.status = JOB_STATUS_ACTIVE]_vars

StoredAs(rec) == {d \in StoredRecords : SameKey(d, rec)}

\* the answers with which a probe fails: the transport's error marker, a
\* payload without 'data' or without 'totalPage', a payload that is no object
FailedAnswers == {"errmarker", "nodata", "nototal", "scalar"}

\* C20: a probe that was not served from the cache has persisted one record
\* for its outcome, with status ok or error; a failed probe has returned (it
\* did not raise) a record with status=error and no payload, that record is
\* the one persisted, and the pair gives no page URL to the keyword's plan
C20_ProbeOutcomePersisted ==
  \A i \in 1..Len(tasks) :
    (tasks[i].role = "probe" /\ tasks[i].pc = "done" /\ tasks[i].attempts >= 1)
    => /\ StoredAs(tasks[i].ret) = {tasks[i].ret}
       /\ tasks[i].ret.status \in {"ok", "error"}
       /\ tasks[i].resp \in FailedAnswers
            => /\ tasks[i].ret.status = "error"
               /\ tasks[i].ret.result = EmptyResult
               /\ AllPageUrls(<<tasks[i]>>) = <<>>

\* a probe has failed on a payload without 'totalPage': it has returned the
\* error record, and that record is the one stored under its key
C20_ProbeFailed ==
  \E i \in 1..Len(tasks) :
    /\ tasks[i].role = "probe"
    /\ tasks[i].pc = "done"
    /\ tasks[i].resp = "nototal"
    /\ tasks[i].ret.status = "error"
    /\ StoredAs(tasks[i].ret) = {tasks[i].ret}

\* the page fetches that return their outcome in this step after a request
ReturningPages ==
  {i \in 1..Len(tasks) :
     /\ tasks[i].role = "page"
     /\ tasks[i].pc = "inflight"
     /\ Len(tasks') = Len(tasks)
     /\ tasks'[i].pc = "done"}

\* C21: when a page fetch that was not served from the cache returns its
\* outcome, success or failure, the record carrying that outcome is in storage
C21_OutcomeStoredAtReturn ==
  [][\A i \in ReturningPages : tasks'[i].ret \in StoredRecords']_vars

\* a page fetch has returned status=error after a request, another has
\* returned status=ok, and both records are stored
C21_FailedAndOkPagesStored ==
  \E i, j \in 1..Len(tasks) :
    /\ tasks[i].role = "page" /\ tasks[j].role = "page"
    /\ tasks[i].pc = "done" /\ tasks[j].pc = "done"
    /\ tasks[i].attempts >= 1 /\ tasks[j].attempts >= 1
    /\ tasks[i].ret.status = "error" /\ tasks[j].ret.status = "ok"
    /\ tasks[i].ret \in StoredRecords /\ tasks[j].ret \in StoredRecords

\* C22: when save_jobs fails in a crawl run the exception reaches the caller
\* of the run, the storage has been closed by then, and no listing the failed
\* call had not written is written by a retry
C22_SaveFailurePropagates ==
  [][lastOp'.op = "crawl_save_failed"
       => /\ lastOp'.raised
          /\ lastOp'.closed
          /\ \A id \in JobIds \ lastOp'.written : DocsOf(id)' = DocsOf(id)]_vars

\* a run has failed in save_jobs on MongoDB at its second listing: the first
\* is stored, the second is not, the exception was raised, storage is closed
C22_SaveFailedMidBatch ==
  /\ lastOp.op = "crawl_save_failed"
  /\ backend = "mongo"
  /\ lastOp.raised /\ lastOp.closed
  /\ lastOp.written # {}
  /\ \E id \in Range(lastOp.jobNos) : DocsOf(id) = {}

\* the composite key under which a task writes its SearchRunRecord
WriteKey(t) ==
  <<today, t.keyword, IF t.role = "probe" THEN t.url ELSE EmptyUrl, t.url>>

\* C23: no two tasks that are in flight at the same time write their record
\* under the same composite key, also when a keyword is given twice
C23_NoTwoWritersPerKey ==
  \A i, j \in InFlight : WriteKey(tasks[i]) = WriteKey(tasks[j]) => i = j

\* the keyword list names a keyword twice and several page fetches of that
\* keyword are in flight together
C23_RepeatedKeywordInFlight ==
  /\ Len(keywords) = 2
  /\ keywords[1] = keywords[2]
  /\ pc = "fetch"
  /\ Cardinality(InFlight) >= 2

\* an address without the newline that may end it
AddrBody(address) ==
  IF address # <<>> /\ address[Len(address)] = "nl"
    THEN SubSeq(address, 1, Len(address) - 1) ELSE address

\* the string is a part that ends in a city-level suffix followed by a part
\* that ends in a district-level suffix
CityThenDistrict(b) ==
  /\ DotRun(b, 1, Len(b))
  /\ \E i \in 1..(Len(b) - 1) : b[i] \in CitySuffix
  /\ b[Len(b)] \in DistrictSuffix

\* the string ends in a city-level suffix
CityOnly(b) ==
  /\ DotRun(b, 1, Len(b))
  /\ b # <<>>
  /\ b[Len(b)] \in CitySuffix

\* C24: split_city_district returns (city, district), the string cut after a
\* city-level suffix, when it is a city part followed by a district part;
\* (city, "") when it only ends in a city-level suffix; and ("", address),
\* the original string, when neither is the case
C24_SplitCityDistrict ==
  proc.pc = "split"
    => LET b == AddrBody(proc.address)
           r == proc.ret
       IN IF CityThenDistrict(b)
            THEN /\ r.city \o r.district = b
                 /\ r.city # <<>> /\ r.district # <<>>
                 /\ r.city[Len(r.city)] \in CitySuffix
                 /\ r.district[Len(r.district)] \in DistrictSuffix
            ELSE IF CityOnly(b)
              THEN r = [city |-> b, district |-> <<>>]
              ELSE r = [city |-> <<>>, district |-> proc.address]

\* a county followed by a city-level district has been split in two, the
\* district part ending in the suffix both patterns know
C24_CountyAndCitySplit ==
  /\ proc.pc = "split"
  /\ proc.address = <<"x", "xian", "x", "shi">>
  /\ proc.ret = [city |-> <<"x", "xian">>, district |-> <<"x", "shi">>]

\* the keywords of a legacy run under which the run has found nothing: no
\* listing of its batch, as saved, carries them
FailedKeywords ==
  {k \in lastOp.keywords :
     \A e \in BagToSet(jobs) :
       e.jobNo \in Range(lastOp.jobNos) => k \notin Range(e.search_keyword)}

\* C25: a legacy run in which every search of one keyword failed while another
\* keyword gave listings still deactivates: the active listings recorded under
\* the failed keyword only, which the run has not found, are made inactive
C25_PartialRunDeactivates ==
  [][(lastOp'.op = "process_jobs_data" /\ lastOp'.jobNos # <<>>)
       => \A k \in FailedKeywords' :
            \A d \in BagToSet(jobs) :
              (/\ d.status = JOB_STATUS_ACTIVE
               /\ Range(d.search_keyword) = {k}
               /\ d.jobNo \notin Range(lastOp'.jobNos))
              => \A e \in BagToSet(jobs') :
                   e.jobNo = d.jobNo
                     => /\ e.status = JOB_STATUS_INACTIVE
                        /\ e.delisted_date = today]_vars

\* a run over two keywords found listings under one of them only, and a
\* listing that was active under the other keyword alone is now inactive
C25_FailedKeywordListingDeactivated ==
  /\ lastOp.op = "process_jobs_data"
  /\ Cardinality(lastOp.keywords) = 2
  /\ lastOp.jobNos # <<>>
  /\ \E k \in FailedKeywords :
       \E d \in BagToSet(jobs) :
         /\ lastOp.existing[d.jobNo] = JOB_STATUS_ACTIVE
         /\ d.jobNo \notin Range(lastOp.jobNos)
         /\ Range(d.search_keyword) = {k}
         /\ d.status = JOB_STATUS_INACTIVE
         /\ d.delisted_date = today

\* C26: a page whose fetch failed earlier on the same day is requested again
\* by a re-run: no page fetch is answered from the cache with the record of a
\* failed fetch
C26_FailedFetchNotServedFromCache ==
  \A i \in 1..Len(tasks) :
    (tasks[i].role = "page" /\ tasks[i].pc = "done" /\ tasks[i].attempts = 0)
    => tasks[i].ret.result.kind # "error"

\* the status=error records stored under the key a task writes
ErrorRecordsOf(t) ==
  {d \in StoredRecords :
     /\ <<d.today, d.keyword, d.first_url, d.crawl_url>> = WriteKey(t)
     /\ d.status = "error"}

\* C27: a task that finds a status=error record under its key is not answered
\* from the cache: the request is issued again, and when it returns the new
\* outcome has replaced the error record, one record being left under the key
C27_ErrorRecordNotReused ==
  [][\A i \in 1..Len(tasks) :
       (Len(tasks') = Len(tasks) /\ ErrorRecordsOf(tasks[i]) # {})
       => /\ (tasks[i].pc = "new" /\ tasks'[i].pc # "new")
               => tasks'[i].pc \in {"inflight", "waiting"}
          /\ (tasks[i].pc = "inflight" /\ tasks'[i].pc = "done")
               => /\ {d \in StoredRecords' : SameKey(d, tasks'[i].ret)}
                       = {tasks'[i].ret}
                  /\ backend = "mongo" => CopiesIn(tasks'[i].ret, daily') = 1]_vars

\* on MongoDB a request was issued although a record was stored under its
\* key, which therefore had status=error; it succeeded, and the ok record is
\* the only one under the key
C27_ErrorRecordReplaced ==
  \E i \in 1..Len(tasks) :
    /\ backend = "mongo"
    /\ tasks[i].pc = "done"
    /\ tasks[i].attempts >= 1
    /\ tasks[i].over /\ ~tasks[i].hit
    /\ tasks[i].ret.status = "ok"
    /\ StoredAs(tasks[i].ret) = {tasks[i].ret}
    /\ ErrorRecordsOf(tasks[i]) = {}

\* C28: the gate leaks no permit: the permits taken are exactly those of the
\* tasks in flight, retries included, whatever the outcome of the others was,
\* and when a gather is complete every permit is available again
C28_NoPermitLeak ==
  /\ permits = MAX_CONCURRENCY - Cardinality(InFlight)
  /\ (AllStarted /\ AllDone) => permits = MAX_CONCURRENCY

\* a gather of more page fetches than permits is complete: one fetch ended
\* in an exception or in the error marker after its retries, one had queued
\* for its permit, and all permits are back
C28_AllPermitsBack ==
  /\ pc = "fetch"
  /\ AllStarted /\ AllDone
  /\ Len(tasks) > MAX_CONCURRENCY
  /\ permits = MAX_CONCURRENCY
  /\ \E i \in 1..Len(tasks) :
       tasks[i].resp \in {"errmarker", "scalar"} /\ tasks[i].attempts > 1
  /\ \E j \in 1..Len(tasks) : j > MAX_CONCURRENCY /\ tasks[j].attempts >= 1

\* C29: update_job_status called with an empty list changes no stored
\* listing and returns 0, on both backends, and a legacy run that has found
\* no listing changes none either
C29_EmptyListDeactivatesNothing ==
  [][/\ (lastOp'.op = "update_job_status" /\ lastOp'.jobNos = <<>>)
          => /\ jobs' = jobs
             /\ jobs_cache' = jobs_cache
             /\ lastOp'.ret = 0
     /\ (lastOp'.op = "process_jobs_data" /\ lastOp'.jobNos = <<>>)
          => jobs' = jobs /\ jobs_cache' = jobs_cache]_vars

\* update_job_status was called with an empty list while an active listing
\* was stored: it is still active
C29_EmptyCallOnActiveStore ==
  /\ lastOp.op = "update_job_status"
  /\ lastOp.jobNos = <<>>
  /\ lastOp.ret = 0
  /\ \E id \in JobIds : lastOp.existing[id] = JOB_STATUS_ACTIVE
  /\ \A id \in JobIds :
       lastOp.existing[id] = JOB_STATUS_ACTIVE
         => \A d \in DocsOf(id) : d.status = JOB_STATUS_ACTIVE

\* the fields of a stored listing the interface lets a caller see
ListingView(d) ==
  [jobNo |-> d.jobNo, status |-> d.status, delisted_date |-> d.delisted_date,
   discovery_date |-> d.discovery_date, search_keyword |-> d.search_keyword]

\* C30: after the same calls the two backends answer alike: get_existing_jobs,
\* the stored listing fields, and get_search_result by the searcher's filters
C30_BackendsEquivalent ==
  /\ mongo_get_existing_jobs(jobs) = file_get_existing_jobs(jobs_cache)
  /\ {ListingView(d) : d \in BagToSet(jobs)}
       = {ListingView(jobs_cache[k]) : k \in DOMAIN jobs_cache}
  /\ \A t \in CacheTasks :
       MongoGetSearchResult(daily, CacheFilter(t))
         = FileGetSearchResult(search_results_cache, CacheFilter(t))

====
